---- MODULE Spec2Model ----
(***************************************************************************)
(* Model of markdown.c (libsoldout): the reference-extraction pre-pass,    *)
(* the reference scanner is_ref, and the recursive block parser            *)
(* (parse_block / parse_paragraph / parse_blockquote) with the XHTML       *)
(* renderer.                                                               *)
(*                                                                         *)
(* Bytes are one-character strings.  Offsets are the C code's 0-based      *)
(* offsets; At(data, i) reads data[i].  A pointer into the cleaned text    *)
(* buffer is its absolute offset in that buffer.                           *)
(***************************************************************************)
EXTENDS Integers, Sequences, FiniteSets, TLC

LF == "\n"
CR == "\r"
TAB == "\t"
SP == " "

\* ---------------------------------------------------------------- bounds
\* longest free-form input over BlockChars
MaxLen == 7
\* largest number of leading spaces put before a reference definition
MaxLead == 4
\* longest free-form input over TabChars
MaxTabLen == 4

\* ---------------------------------------------------------------- bytes
At(data, i) == data[i + 1]

\* data[a .. b), as the (pointer, length) pairs of bufput
Slice(data, a, b) == SubSeq(data, a + 1, b)

Min(a, b) == IF a < b THEN a ELSE b

\* while (i < end && data[i] in S) i += 1;
RECURSIVE SkipWhile(_, _, _, _)
SkipWhile(data, i, end, S) ==
  IF i < end /\ At(data, i) \in S THEN SkipWhile(data, i + 1, end, S) ELSE i

\* while (i < end && data[i] not in S) i += 1;
RECURSIVE SkipUntil(_, _, _, _)
SkipUntil(data, i, end, S) ==
  IF i < end /\ At(data, i) \notin S THEN SkipUntil(data, i + 1, end, S) ELSE i

\* while (i > low && data[i] in S) i -= 1;
RECURSIVE BackWhile(_, _, _, _)
BackWhile(data, i, low, S) ==
  IF i > low /\ At(data, i) \in S THEN BackWhile(data, i - 1, low, S) ELSE i

\* ---------------------------------------------------------------- is_ref
\* is_ref is written as its successive stages; each stage receives the
\* locals computed so far and either fails or hands on to the next one.

\* lr->title = 0
NoTitle == <<>>

\* result of a failed is_ref: *last and refs are left alone
RefFail == [ok |-> FALSE, last |-> 0, id |-> <<>>, link |-> <<>>, title |-> NoTitle]

\* a valid ref has been found, filling-in return structures
RefFill(data, id_offset, id_end, link_offset, link_end, line_end, title_offset, title_end) ==
  IF line_end = 0 THEN RefFail
  ELSE [ok |-> TRUE,
        last |-> line_end,
        id |-> Slice(data, id_offset, id_end),
        link |-> Slice(data, link_offset, link_end),
        title |-> IF title_end > title_offset
                  THEN <<Slice(data, title_offset, title_end)>>
                  ELSE NoTitle]

\* after stepping back to i: a closing delimiter makes the title line part
\* of the reference
RefStepBack(data, id_offset, id_end, link_offset, link_end, line_end, title_offset, title_end, i) ==
  IF i > title_offset /\ At(data, i) \in {"'", "\"", ")"}
  THEN RefFill(data, id_offset, id_end, link_offset, link_end, title_end, title_offset, i)
  ELSE RefFill(data, id_offset, id_end, link_offset, link_end, line_end, title_offset, title_end)

\* title_end for the end of line found at eol
TitleEnd(data, end, eol) ==
  IF eol + 1 < end /\ At(data, eol) = LF /\ At(data, eol + 1) = CR THEN eol + 1 ELSE eol

\* looking for EOL, then stepping back
RefTitleEol(data, end, id_offset, id_end, link_offset, link_end, line_end, title_offset, eol) ==
  RefStepBack(data, id_offset, id_end, link_offset, link_end, line_end, title_offset,
              TitleEnd(data, end, eol),
              BackWhile(data, eol - 1, title_offset, {SP, TAB}))

\* optional title: any non-newline sequence enclosed in '"() alone on its line
RefTitle(data, end, id_offset, id_end, link_offset, link_end, line_end, i) ==
  IF i + 1 < end /\ At(data, i) \in {"'", "\"", "("}
  THEN RefTitleEol(data, end, id_offset, id_end, link_offset, link_end, line_end, i + 1,
                   SkipUntil(data, i + 1, end, {LF, CR}))
  ELSE RefFill(data, id_offset, id_end, link_offset, link_end, line_end, 0, 0)

\* computing end-of-line: line_end for the byte at i after the link
LineEndAt(data, end, i) ==
  IF i + 1 < end /\ At(data, i) = LF /\ At(data, i + 1) = CR THEN i + 1
  ELSE IF i >= end \/ At(data, i) \in {CR, LF} THEN i
  ELSE 0

\* optional (space|tab)* spacer after a newline
RefAfterEol(data, end, id_offset, id_end, link_offset, link_end, line_end, i) ==
  RefTitle(data, end, id_offset, id_end, link_offset, link_end, line_end,
           IF line_end # 0 THEN SkipWhile(data, line_end + 1, end, {SP, TAB}) ELSE i)

\* optional spacer: (space | tab)* (newline | '\'' | '"' | '(' )
RefEol(data, end, id_offset, id_end, link_offset, link_end, i) ==
  IF i < end /\ At(data, i) \notin {LF, CR, "'", "\"", "("} THEN RefFail
  ELSE RefAfterEol(data, end, id_offset, id_end, link_offset, link_end,
                   LineEndAt(data, end, i), i)

\* link_end, and the spacer after the link
RefLinkEnd(data, end, id_offset, id_end, link_offset, i) ==
  RefEol(data, end, id_offset, id_end, link_offset,
         IF At(data, i - 1) = ">" THEN i - 1 ELSE i,
         SkipWhile(data, i, end, {SP, TAB}))

\* link: whitespace-free sequence, optionally between angle brackets
RefLinkScan(data, end, id_offset, id_end, link_offset) ==
  RefLinkEnd(data, end, id_offset, id_end, link_offset,
             SkipUntil(data, link_offset, end, {SP, TAB, LF, CR}))

RefLink(data, end, id_offset, id_end, i) ==
  IF i >= end THEN RefFail
  ELSE RefLinkScan(data, end, id_offset, id_end, IF At(data, i) = "<" THEN i + 1 ELSE i)

\* the newline? of the spacer: LF, CR or LF CR
AfterNewline(data, end, i) ==
  IF i < end /\ At(data, i) \in {LF, CR}
  THEN IF i + 1 < end /\ At(data, i + 1) = CR /\ At(data, i) = LF THEN i + 2 ELSE i + 1
  ELSE i

\* spacer: colon (space | tab)* newline? (space | tab)*
RefSpacer(data, end, id_offset, id_end, i) ==
  RefLink(data, end, id_offset, id_end,
          SkipWhile(data, AfterNewline(data, end, i), end, {SP, TAB}))

RefColon(data, end, id_offset, id_end) ==
  IF id_end >= end \/ At(data, id_end) # "]" THEN RefFail
  ELSE IF id_end + 1 >= end \/ At(data, id_end + 1) # ":" THEN RefFail
  ELSE RefSpacer(data, end, id_offset, id_end,
                 SkipWhile(data, id_end + 2, end, {SP, TAB}))

\* if (i >= end || i >= beg + 3) return 0;
LeadReject(i, beg, end) == i >= end \/ i >= beg + 3

\* id part: anything but a newline between brackets
RefId(data, beg, end, i) ==
  IF LeadReject(i, beg, end) THEN RefFail
  ELSE IF At(data, i) # "[" THEN RefFail
  ELSE RefColon(data, end, i + 1, SkipUntil(data, i + 1, end, {LF, CR, "]"}))

\* is_ref(data, beg, end, &last, refs): ok, *last and the new record.
\* up to 3 optional leading spaces: while (i < beg + 3 && i < end && ...)
is_ref(data, beg, end) ==
  RefId(data, beg, end, SkipWhile(data, beg, Min(beg + 3, end), {SP}))

\* ---------------------------------------------------------------- pre-pass
\* a mutation of BodyEnd: the line body scan stops at LF only
BodyEndLF(data, beg, size) == SkipUntil(data, beg, size, {LF})

\* the line body scan of the else branch: up to the next LF or CR
BodyEnd(data, beg, size) == SkipUntil(data, beg, size, {LF, CR})

\* a mutation of AddsNewline: only an LF byte adds an LF
AddsNewlineLFOnly(data, end, size) == At(data, end) = LF

\* add one \n per newline: whether the terminator byte at `end` adds an LF
AddsNewline(data, end, size) ==
  At(data, end) = LF \/ (end + 1 < size /\ At(data, end + 1) # LF)

\* the loop over the run of LF / CR bytes: [end, nl] = offset after the run
\* and the LFs appended to the text
RECURSIVE NewlineRun(_, _, _, _)
NewlineRun(data, end, size, nl) ==
  IF end < size /\ At(data, end) \in {LF, CR}
  THEN NewlineRun(data, end + 1, size,
                  IF AddsNewline(data, end, size) THEN Append(nl, LF) ELSE nl)
  ELSE [end |-> end, nl |-> nl]

\* the else branch once the run after the body ending at `end` is scanned
PrePassRun(data, st, end, run) ==
  [beg |-> run.end,
   text |-> st.text \o Slice(data, st.beg, end) \o run.nl,
   refs |-> st.refs]

\* skipping to the next line, adding the line body if present
PrePassCopy(data, st, end) ==
  PrePassRun(data, st, end, NewlineRun(data, end, Len(data), <<>>))

\* the body of the first-pass loop, given what is_ref returned
PrePassApply(data, st, r) ==
  IF r.ok
  THEN [beg |-> r.last, text |-> st.text,
        refs |-> Append(st.refs, [id |-> r.id, link |-> r.link, title |-> r.title])]
  ELSE PrePassCopy(data, st, BodyEnd(data, st.beg, Len(data)))

\* one iteration of the first-pass loop of markdown(), on [beg, text, refs]
PrePassStep(data, st) == PrePassApply(data, st, is_ref(data, st.beg, Len(data)))

\* adding a final newline if not already present
FinalNewlineText(t) ==
  IF At(t, Len(t) - 1) # LF /\ At(t, Len(t) - 1) # CR THEN Append(t, LF) ELSE t

\* ---------------------------------------------------------------- renderer
\* xhtml_paragraph(ob, text)
xhtml_paragraph(ob, text) ==
  (IF Len(ob) # 0 THEN Append(ob, LF) ELSE ob)
    \o <<"<", "p", ">">> \o text \o <<"<", "/", "p", ">", LF>>

\* xhtml_blockquote(ob, text)
xhtml_blockquote(ob, text) ==
  (IF Len(ob) # 0 THEN Append(ob, LF) ELSE ob)
    \o <<"<", "b", "l", "o", "c", "k", "q", "u", "o", "t", "e", ">", LF>>
    \o text
    \o <<"<", "/", "b", "l", "o", "c", "k", "q", "u", "o", "t", "e", ">", LF>>

\* ---------------------------------------------------------------- line helpers
\* is_empty(data, size) with data = mem + base
is_empty(mem, base, size) ==
  \A k \in base .. SkipUntil(mem, base, base + size, {LF}) - 1 :
     At(mem, k) \in {SP, TAB}

\* prefix_quote once its three leading-space tests have moved i
PrefixAt(mem, base, size, i) ==
  IF i < size /\ At(mem, base + i) = ">"
  THEN IF i + 1 < size /\ At(mem, base + i + 1) \in {SP, TAB} THEN i + 2 ELSE i + 1
  ELSE 0

\* prefix_quote(data, size) with data = mem + base: three times
\* if (i < size && data[i] == ' ') i += 1;
prefix_quote(mem, base, size) ==
  PrefixAt(mem, base, size, SkipWhile(mem, base, base + Min(3, size), {SP}) - base)

\* for (end = beg + 1; end < size && data[end - 1] != '\n'; end += 1);
RECURSIVE LineScan(_, _, _, _)
LineScan(mem, base, end, size) ==
  IF end < size /\ At(mem, base + end - 1) # LF
  THEN LineScan(mem, base, end + 1, size) ELSE end

LineEnd(mem, base, beg, size) == LineScan(mem, base, beg + 1, size)

\* ---------------------------------------------------------------- parse_paragraph
\* the while loop of parse_paragraph: the value of `end` when it exits
RECURSIVE ParaScan(_, _, _, _, _)
ParaLine(mem, base, size, i, end) ==
  IF is_empty(mem, base + i, size - i) THEN end
  ELSE ParaScan(mem, base, size, end, end)

ParaScan(mem, base, size, i, end) ==
  IF i < size THEN ParaLine(mem, base, size, i, LineEnd(mem, base, i, size))
  ELSE end

\* while (work.size && data[work.size - 1] == '\n') work.size -= 1;
RECURSIVE TrimLF(_, _, _)
TrimLF(mem, base, n) ==
  IF n # 0 /\ At(mem, base + n - 1) = LF THEN TrimLF(mem, base, n - 1) ELSE n

\* a mutation of ParaReturn: the count is one past the scan end
ParaReturnPast(end) == end + 1

\* return end;
ParaReturn(end) == end

\* g carries the text buffer and the history of the run:
\*   mem    : the bytes of the text buffer
\*   calls  : the renderer callbacks in the order they were invoked, each with
\*            the range [lo, hi) of the text buffer its block was parsed from
\*   blocks : one record per finished parse_block call
\*   quotes : one record per parse_blockquote call, taken when it recurses
Called(g, kind, depth, lo, hi) ==
  [g EXCEPT !.calls = Append(@, [kind |-> kind, depth |-> depth, lo |-> lo, hi |-> hi])]

\* the end of parse_paragraph: the trim, rndr->paragraph(ob, &work), the return
ParaRender(ob, g, base, depth, end) ==
  [ob |-> xhtml_paragraph(ob, Slice(g.mem, base, base + TrimLF(g.mem, base, end))),
   g |-> Called(g, "paragraph", depth, base, base + ParaReturn(end)),
   n |-> ParaReturn(end)]

\* parse_paragraph(ob, rndr, data, size) with data = g.mem + base
parse_paragraph(ob, g, base, size, depth) ==
  ParaRender(ob, g, base, depth, ParaScan(g.mem, base, size, 0, 0))

\* ---------------------------------------------------------------- parse_blockquote
\* char *work_data = 0
NULL == -1

\* memmove(mem + dest, mem + src, n): an overlap-safe copy
memmove(mem, dest, src, n) ==
  [k \in 1 .. Len(mem) |->
     IF dest + 1 <= k /\ k <= dest + n THEN mem[src + (k - dest)] ELSE mem[k]]

\* a mutation of StopsQuote: the lookahead test is inverted
StopsQuoteInverted(mem, base, beg, end, size) ==
  /\ is_empty(mem, base + beg, end - beg)
  /\ (end >= size \/ prefix_quote(mem, base + end, size - end) # 0)

\* the break test of the loop, once the line has no prefix: an empty line
\* followed by a non-quote line (or by the end of the region)
StopsQuote(mem, base, beg, end, size) ==
  /\ is_empty(mem, base + beg, end - beg)
  /\ (end >= size \/ prefix_quote(mem, base + end, size - end) = 0)

\* a mutation of Compact: the line is taken to be contiguous already and
\* is never moved
CompactNoMove(mem, wd, ws, src, n) == mem

\* copy into the in-place working buffer: the text buffer after the n bytes
\* at absolute offset src have joined the working range (wd, ws)
Compact(mem, wd, ws, src, n) ==
  IF wd = NULL THEN mem
  ELSE IF src # wd + ws THEN memmove(mem, wd + ws, src, n)
  ELSE mem

\* history: how the loop saw the line [from, to) it accepted
AcceptedLine(mem, base, size, from, end, pre) ==
  [pre |-> pre,
   empty |-> is_empty(mem, base + from, end - from),
   next |-> IF end >= size THEN 0 ELSE prefix_quote(mem, base + end, size - end),
   from |-> base + from,
   to |-> base + end]

\* the loop body from `if (beg < end)` on, beg being past the prefix.
\* st = [beg, end, wd, ws, mem] are the locals and the text buffer; st.fresh
\* and st.lines are history: what bufput(work, data + beg, end - beg) on a
\* separate buffer, reading the region as it was on entry (snap), would have
\* built, and the lines accepted.
QuoteCopy(snap, base, size, st, end, pre, beg) ==
  IF beg < end
  THEN [beg |-> end,
        end |-> end,
        wd |-> IF st.wd = NULL THEN base + beg ELSE st.wd,
        ws |-> st.ws + (end - beg),
        mem |-> Compact(st.mem, st.wd, st.ws, base + beg, end - beg),
        fresh |-> st.fresh \o Slice(snap, base + beg, base + end),
        lines |-> Append(st.lines, AcceptedLine(st.mem, base, size, st.beg, end, pre))]
  ELSE [st EXCEPT !.beg = end, !.end = end]

\* the while loop of parse_blockquote
RECURSIVE QuoteLoop(_, _, _, _)
QuoteTake(snap, base, size, st, end, pre) ==
  IF pre = 0 /\ StopsQuote(st.mem, base, st.beg, end, size)
  THEN [st EXCEPT !.end = end]
  ELSE QuoteLoop(snap, base, size, QuoteCopy(snap, base, size, st, end, pre, st.beg + pre))

QuoteLine(snap, base, size, st, end) ==
  QuoteTake(snap, base, size, st, end, prefix_quote(st.mem, base + st.beg, end - st.beg))

QuoteLoop(snap, base, size, st) ==
  IF st.beg < size
  THEN QuoteLine(snap, base, size, st, LineEnd(st.mem, base, st.beg, size))
  ELSE st

\* history: the working range handed to the recursive parse_block
QuoteEnter(g, base, size, st) ==
  [g EXCEPT !.mem = st.mem,
            !.quotes = Append(@, [base |-> base, size |-> size,
                                  wd |-> st.wd, ws |-> st.ws,
                                  packed |-> Slice(st.mem, st.wd, st.wd + st.ws),
                                  fresh |-> st.fresh, lines |-> st.lines])]

\* rndr->blockquote(ob, out); return end;
QuoteRender(ob, base, depth, st, inner) ==
  [ob |-> xhtml_blockquote(ob, inner.ob),
   g |-> Called(inner.g, "blockquote", depth, base, base + st.end),
   n |-> st.end]

RECURSIVE parse_block(_, _, _, _, _)

\* a mutation of QuoteFinish: rndr->blockquote is called before the inner
\* content is parsed
QuoteFinishEarly(ob, g, base, size, depth, st) ==
  [ob |-> xhtml_blockquote(ob, <<>>),
   g |-> parse_block(<<>>,
                    Called(QuoteEnter(g, base, size, st), "blockquote", depth,
                           base, base + st.end),
                    st.wd, st.ws, depth + 1).g,
   n |-> st.end]

\* the end of parse_blockquote: parse_block(out, rndr, work_data, work_size);
\* rndr->blockquote(ob, out); return end;
QuoteFinish(ob, g, base, size, depth, st) ==
  QuoteRender(ob, base, depth, st,
              parse_block(<<>>, QuoteEnter(g, base, size, st), st.wd, st.ws, depth + 1))

\* parse_blockquote(ob, rndr, data, size) with data = g.mem + base.  It is
\* only called on a region that starts with a quote prefix, so size > 0 and
\* `end` is assigned before it is returned.
parse_blockquote(ob, g, base, size, depth) ==
  QuoteFinish(ob, g, base, size, depth,
              QuoteLoop(g.mem, base, size,
                        [beg |-> 0, end |-> 0, wd |-> NULL, ws |-> 0, mem |-> g.mem,
                         fresh |-> <<>>, lines |-> <<>>]))

\* ---------------------------------------------------------------- parse_block
\* the while loop of parse_block; counts is the history of the values the
\* sub-parsers returned, each with the bytes that remained when it was called
RECURSIVE BlockLoop(_, _, _, _, _, _, _)
BlockStep(base, size, depth, beg, counts, r) ==
  BlockLoop(r.ob, r.g, base, size, depth, beg + r.n,
            Append(counts, [c |-> r.n, rem |-> size - beg]))

BlockLoop(ob, g, base, size, depth, beg, counts) ==
  IF beg < size
  THEN BlockStep(base, size, depth, beg, counts,
                 IF prefix_quote(g.mem, base + beg, size - beg) # 0
                 THEN parse_blockquote(ob, g, base + beg, size - beg, depth)
                 ELSE parse_paragraph(ob, g, base + beg, size - beg, depth))
  ELSE [ob |-> ob,
        g |-> [g EXCEPT !.blocks = Append(@, [depth |-> depth, base |-> base,
                                              size |-> size, beg |-> beg,
                                              counts |-> counts])]]

\* parse_block(ob, rndr, data, size) with data = g.mem + base
parse_block(ob, g, base, size, depth) == BlockLoop(ob, g, base, size, depth, 0, <<>>)

\* ---------------------------------------------------------------- markdown
\* debug: printing the reference list.  lr = refs.base is never advanced in
\* the loop, so every iteration prints the first record.
DumpRecord(lr) ==
  <<LF, TAB, "(", "\"">> \o lr.id \o <<"\"", SP, "\"">> \o lr.link
    \o (IF lr.title # NoTitle THEN <<"\"", SP, "\"">> \o lr.title[1] ELSE <<>>)
    \o <<"\"", ")">>

RECURSIVE DumpLoop(_, _, _)
DumpLoop(refs, i, ob) ==
  IF i < Len(refs) THEN DumpLoop(refs, i + 1, ob \o DumpRecord(refs[1])) ELSE ob

DumpRefs(ob, refs) ==
  DumpLoop(refs, 0, ob \o <<"(", "r", "e", "f", "s">>) \o <<")", LF>>

\* the text buffer and the empty history handed to the second pass
Ground(t) == [mem |-> t, calls |-> <<>>, blocks |-> <<>>, quotes |-> <<>>]

\* the first pass of markdown(), run to its end
RECURSIVE PrePass(_, _)
PrePass(data, st) ==
  IF st.beg < Len(data) THEN PrePass(data, PrePassStep(data, st)) ELSE st

\* the second pass and the debug stanza, on the text with its final newline
Render(ob0, t, refs) ==
  DumpRefs(parse_block(ob0, Ground(t), 0, Len(t), 0).ob, refs)

\* markdown() after its first pass
AfterPrePass(ob0, st) ==
  IF Len(st.text) = 0 THEN ob0 ELSE Render(ob0, FinalNewlineText(st.text), st.refs)

\* markdown(ob, ib, rndr, flags) with the XHTML renderer: the bytes of ob on return
markdown(ob0, data) ==
  AfterPrePass(ob0, PrePass(data, [beg |-> 0, text |-> <<>>, refs |-> <<>>]))

\* ---------------------------------------------------------------- inputs
BlockChars == {"a", ">", SP, LF, CR}

\* every input over BlockChars of at most MaxLen bytes
BlockInputs == UNION {[1 .. k -> BlockChars] : k \in 0 .. MaxLen}

\* every input over TabChars of at most MaxTabLen bytes
TabChars == {"a", ">", TAB, LF}
TabInputs == UNION {[1 .. k -> TabChars] : k \in 0 .. MaxTabLen}

Spaces(n) == [k \in 1 .. n |-> SP]

\* reference definitions [r]: u "t" in their variations, after a lead and
\* before a tail
RefInputs ==
  {lead \o <<"[", "r", "]", ":">> \o sp \o link \o mid \o title \o term \o tail :
     lead \in {Spaces(n) : n \in 0 .. MaxLead} \cup {<<TAB>>},
     sp \in {<<>>, <<SP>>, <<LF>>},
     link \in {<<"u">>, <<"<", "u", ">">>},
     mid \in {<<>>, <<SP>>, <<LF>>},
     title \in {<<>>, <<"\"", "t", "\"">>, <<"\"", "t">>, <<"(", "t", ")", SP>>, <<"x">>},
     term \in {<<>>, <<LF>>, <<CR>>, <<LF, CR>>},
     tail \in {<<>>, <<LF, "B", LF>>, <<">", "q", LF>>}}

Inputs == BlockInputs \cup TabInputs \cup RefInputs

\* ---------------------------------------------------------------- state
VARIABLES
  ib,      \* the input buffer
  pc,      \* where markdown() is: "prepass", "parse", "dump", "done"
  beg,     \* the first-pass offset
  text,    \* the cleaned text buffer
  refs,    \* the reference table
  ob,      \* the output buffer
  calls,   \* history: the renderer callbacks, in the order invoked
  blocks,  \* history: the parse_block calls
  quotes   \* history: the parse_blockquote calls

vars == <<ib, pc, beg, text, refs, ob, calls, blocks, quotes>>

Init ==
  /\ ib \in Inputs
  /\ pc = "prepass"
  /\ beg = 0
  /\ text = <<>>
  /\ refs = <<>>
  /\ ob = <<>>
  /\ calls = <<>>
  /\ blocks = <<>>
  /\ quotes = <<>>

\* the first-pass locals take the values of st
Stepped(st) == beg' = st.beg /\ text' = st.text /\ refs' = st.refs

\* the output, the text buffer and the history take the values parse_block left
Parsed(r) ==
  /\ ob' = r.ob
  /\ text' = r.g.mem
  /\ calls' = r.g.calls
  /\ blocks' = r.g.blocks
  /\ quotes' = r.g.quotes

\* first pass, a line that is a reference: beg = end
PrePassRef ==
  /\ pc = "prepass"
  /\ beg < Len(ib)
  /\ is_ref(ib, beg, Len(ib)).ok
  /\ Stepped(PrePassStep(ib, [beg |-> beg, text |-> text, refs |-> refs]))
  /\ UNCHANGED <<ib, pc, ob, calls, blocks, quotes>>

\* first pass, any other line: copied to the text, its newlines normalised
PrePassLine ==
  /\ pc = "prepass"
  /\ beg < Len(ib)
  /\ ~is_ref(ib, beg, Len(ib)).ok
  /\ Stepped(PrePassStep(ib, [beg |-> beg, text |-> text, refs |-> refs]))
  /\ UNCHANGED <<ib, pc, ob, calls, blocks, quotes>>

\* if (!text->size) return;
EarlyReturn ==
  /\ pc = "prepass"
  /\ beg >= Len(ib)
  /\ Len(text) = 0
  /\ pc' = "done"
  /\ UNCHANGED <<ib, beg, text, refs, ob, calls, blocks, quotes>>

\* adding a final newline if not already present
FinalNewline ==
  /\ pc = "prepass"
  /\ beg >= Len(ib)
  /\ Len(text) # 0
  /\ text' = FinalNewlineText(text)
  /\ pc' = "parse"
  /\ UNCHANGED <<ib, beg, refs, ob, calls, blocks, quotes>>

\* second pass: parse_block(ob, rndr, text->data, text->size)
SecondPass ==
  /\ pc = "parse"
  /\ Parsed(parse_block(ob, Ground(text), 0, Len(text), 0))
  /\ pc' = "dump"
  /\ UNCHANGED <<ib, beg, refs>>

\* debug: printing the reference list
DebugDump ==
  /\ pc = "dump"
  /\ ob' = DumpRefs(ob, refs)
  /\ pc' = "done"
  /\ UNCHANGED <<ib, beg, text, refs, calls, blocks, quotes>>

Next ==
  \/ PrePassRef
  \/ PrePassLine
  \/ EarlyReturn
  \/ FinalNewline
  \/ SecondPass
  \/ DebugDump

Spec == Init /\ [][Next]_vars

\* ================================================================ properties

Openers == {"'", "\"", "("}
Closers == {"'", "\"", ")"}

\* the number of leading spaces of data
LeadSpaces(data) == SkipWhile(data, 0, Len(data), {SP})

\* n LF bytes
Newlines(n) == [k \in 1 .. n |-> LF]

RECURSIVE SumCounts(_)
SumCounts(counts) ==
  IF counts = <<>> THEN 0 ELSE Head(counts).c + SumCounts(Tail(counts))

\* ---------------------------------------------------------------- C1
\* the offset of the first LF of data (Len(data) when there is none)
FirstLF(data) == SkipUntil(data, 0, Len(data), {LF})

\* the paragraph text of an input <definition line> LF LF <text> LF
C1Para(data) == Slice(data, FirstLF(data) + 2, Len(data) - 1)

\* data is <valid link-reference definition line> LF LF <paragraph text> LF,
\* the paragraph text being letters
C1Form(data) ==
  /\ FirstLF(data) + 4 <= Len(data)
  /\ At(data, FirstLF(data) + 1) = LF
  /\ At(data, Len(data) - 1) = LF
  /\ \A k \in 0 .. FirstLF(data) - 1 : At(data, k) # CR
  /\ \A k \in 1 .. Len(C1Para(data)) : C1Para(data)[k] \in {"a", "B"}
  /\ is_ref(data, 0, Len(data)).ok
  /\ is_ref(data, 0, Len(data)).last = FirstLF(data)

\* the record is_ref builds for the definition at the start of data
C1Record(r) == [id |-> r.id, link |-> r.link, title |-> r.title]

\* C1: for an input <valid link-reference definition line> LF LF <paragraph
\* text> LF, the output before the debug stanza is exactly <p>text</p> LF and
\* the reference table holds exactly the definition's record.
C1_RefThenParagraph ==
  (pc = "dump" /\ C1Form(ib)) =>
     /\ ob = <<"<", "p", ">">> \o C1Para(ib) \o <<"<", "/", "p", ">", LF>>
     /\ refs = <<C1Record(is_ref(ib, 0, Len(ib)))>>

\* ---------------------------------------------------------------- C2
\* C2: markdown() on the input and markdown() on the input followed by one
\* more LF append the same bytes to the output buffer.
C2_TrailingLF ==
  pc = "done" => ob = markdown(<<>>, Append(ib, LF))

\* ---------------------------------------------------------------- C3
\* C3 as stated: every line accepted into a blockquote carries a quote
\* prefix or is an empty line immediately followed by a line that carries one.
C3_OnlyQuotedOrSoft ==
  \A i \in DOMAIN quotes : \A k \in DOMAIN quotes[i].lines :
     \/ quotes[i].lines[k].pre > 0
     \/ (quotes[i].lines[k].empty /\ quotes[i].lines[k].next > 0)

\* C3 amended: every line accepted into a blockquote carries a quote prefix,
\* or is an empty line immediately followed by a line that carries one, or is
\* a non-empty line without a prefix; an empty line without a prefix that no
\* prefixed line follows is never accepted.
C3_Amended ==
  \A i \in DOMAIN quotes : \A k \in DOMAIN quotes[i].lines :
     \/ quotes[i].lines[k].pre > 0
     \/ (quotes[i].lines[k].empty /\ quotes[i].lines[k].next > 0)
     \/ (quotes[i].lines[k].pre = 0 /\ ~quotes[i].lines[k].empty)

\* a blockquote took a non-empty line without a prefix and, after it, an
\* empty line that a prefixed line follows
C3_Witness ==
  \E i \in DOMAIN quotes : \E k, m \in DOMAIN quotes[i].lines :
     /\ k < m
     /\ quotes[i].lines[k].pre = 0 /\ ~quotes[i].lines[k].empty
     /\ quotes[i].lines[m].pre = 0 /\ quotes[i].lines[m].empty
     /\ quotes[i].lines[m].next > 0

\* ---------------------------------------------------------------- C4
\* C4: a well-formed definition is accepted behind 0 to 3 leading spaces and
\* rejected behind 4 or more spaces or behind a tab.
C4_LeadingSpaces ==
  (pc = "prepass" /\ beg = 0) =>
     /\ (/\ LeadSpaces(ib) < Len(ib)
         /\ At(ib, LeadSpaces(ib)) = "["
         /\ is_ref(ib, LeadSpaces(ib), Len(ib)).ok)
        => (is_ref(ib, 0, Len(ib)).ok <=> LeadSpaces(ib) <= 3)
     /\ (/\ Len(ib) >= 2
         /\ At(ib, 0) = TAB
         /\ is_ref(ib, 1, Len(ib)).ok)
        => ~is_ref(ib, 0, Len(ib)).ok

\* ---------------------------------------------------------------- C5
\* call a precedes call b in the document
Precedes(a, b) == a.hi <= b.lo

\* call a is for a block nested inside the blockquote of call b
NestedIn(a, b) ==
  b.kind = "blockquote" /\ b.lo <= a.lo /\ a.hi <= b.hi /\ a.depth > b.depth

\* C5: the callbacks are invoked in the document order of their blocks, and
\* the callbacks for the blocks nested in a blockquote come before the
\* callback of that blockquote, at every depth.
C5_CallbackOrder ==
  \A i, j \in DOMAIN calls :
     i < j => (Precedes(calls[i], calls[j]) \/ NestedIn(calls[i], calls[j]))

\* a run with two levels of nesting and a block after a blockquote
C5_Witness ==
  /\ \E i, j, k \in DOMAIN calls :
        /\ i < j /\ j < k
        /\ NestedIn(calls[i], calls[j]) /\ NestedIn(calls[j], calls[k])
  /\ \E i, j \in DOMAIN calls :
        i < j /\ calls[i].kind = "blockquote" /\ Precedes(calls[i], calls[j])

\* ---------------------------------------------------------------- C6
\* C6: in every parse_block call each sub-parser returns a count c with
\* 1 <= c <= remaining bytes, and the counts sum to the size of the region,
\* which is where the dispatcher's offset stands on return.
C6_Progress ==
  \A i \in DOMAIN blocks :
     /\ \A k \in DOMAIN blocks[i].counts :
           1 <= blocks[i].counts[k].c /\ blocks[i].counts[k].c <= blocks[i].counts[k].rem
     /\ SumCounts(blocks[i].counts) = blocks[i].size
     /\ blocks[i].beg = blocks[i].size

\* a recursive parse_block call that dispatched twice, in a run whose
\* top-level call dispatched to both sub-parsers
C6_Witness ==
  /\ \E i \in DOMAIN blocks : blocks[i].depth >= 1 /\ Len(blocks[i].counts) >= 2
  /\ \E i \in DOMAIN blocks : blocks[i].depth = 0 /\ Len(blocks[i].counts) >= 2

\* ---------------------------------------------------------------- C7
\* C7: the text handed to parse_block holds no CR and, when non-empty, ends
\* with LF.
C7_CleanText ==
  pc = "parse" =>
     /\ \A k \in DOMAIN text : text[k] # CR
     /\ (Len(text) # 0 => text[Len(text)] = LF)

\* the text is handed over for an input with CRs that ends without an LF
C7_Witness ==
  /\ pc = "parse"
  /\ \E k \in DOMAIN ib : ib[k] = CR
  /\ ib[Len(ib)] # LF

\* ---------------------------------------------------------------- C8
\* title stands in data between an opening and a closing delimiter
ClosedIn(data, title) ==
  \E p \in 1 .. Len(data) - Len(title) - 1 :
     /\ At(data, p - 1) \in Openers
     /\ Slice(data, p, p + Len(title)) = title
     /\ At(data, p + Len(title)) \in Closers

\* C8: a record carries a title only when the title is closed by a closing
\* delimiter; a candidate title with no closing delimiter leaves the record
\* without a title.
C8_TitleOnlyWhenClosed ==
  \A k \in DOMAIN refs :
     refs[k].title # NoTitle => ClosedIn(ib, refs[k].title[1])

\* ---------------------------------------------------------------- C9
\* C9: the range handed to the recursive parse_block lies inside the region
\* parse_blockquote was given and holds the bytes that appending each
\* accepted line, past its prefix, to a separate buffer would have built.
C9_Compaction ==
  \A i \in DOMAIN quotes :
     /\ quotes[i].base <= quotes[i].wd
     /\ quotes[i].wd + quotes[i].ws <= quotes[i].base + quotes[i].size
     /\ quotes[i].packed = quotes[i].fresh

\* a blockquote whose second and third lines were moved, the third one
\* onto bytes the second had left
C9_Witness ==
  \E i \in DOMAIN quotes :
     /\ Len(quotes[i].lines) >= 3
     /\ quotes[i].lines[2].pre > 0
     /\ quotes[i].lines[3].pre > 0

\* ---------------------------------------------------------------- C10
\* the first pass stands before a line that is no reference
AtPlainLine == pc = "prepass" /\ beg < Len(ib) /\ ~is_ref(ib, beg, Len(ib)).ok

\* the end of the body of the line at beg, and the offsets of the run of
\* LF and CR bytes after it
PlainBodyEnd == SkipUntil(ib, beg, Len(ib), {LF, CR})
RunOffsets == PlainBodyEnd .. SkipWhile(ib, PlainBodyEnd, Len(ib), {LF, CR}) - 1

\* the terminator bytes of the run that are LF
RunLFs == {k \in RunOffsets : At(ib, k) = LF}

\* the terminator bytes of the run that are CR and have a next byte that is
\* not LF
RunLoneCRs ==
  {k \in RunOffsets : At(ib, k) = CR /\ k + 1 < Len(ib) /\ At(ib, k + 1) # LF}

\* C10 as stated: a non-reference line adds its body and one LF per LF byte
\* of its terminator run; a CR adds nothing.
C10_OnlyLFs ==
  [][AtPlainLine =>
       text' = text \o Slice(ib, beg, PlainBodyEnd) \o Newlines(Cardinality(RunLFs))]_vars

\* C10 amended: a non-reference line adds its body, one LF per LF byte of its
\* terminator run and one LF per CR of the run that is followed by a byte
\* other than LF; a CR followed by LF or by the end of the input adds nothing.
C10_Amended ==
  [][AtPlainLine =>
       text' = text \o Slice(ib, beg, PlainBodyEnd)
                    \o Newlines(Cardinality(RunLFs) + Cardinality(RunLoneCRs))]_vars

\* the first pass has just taken a line ended by a CR alone, before more
\* text, and the text ends with the LF added for it
C10_Witness ==
  /\ pc = "prepass"
  /\ beg >= 2 /\ beg < Len(ib)
  /\ ib[beg] = CR
  /\ ib[beg + 1] \notin {LF, CR}
  /\ \A k \in 1 .. beg : ib[k] # LF
  /\ Len(text) >= 2
  /\ text[Len(text)] = LF

====
